---- MODULE Spec2Model ----
(***************************************************************************)
(* Ticket backend: Stripe webhook receiver, in-memory order store, order   *)
(* query endpoint and checkout (create-intent) endpoint.                   *)
(*                                                                         *)
(* Every request handler is an async function.  The code between two       *)
(* awaits runs atomically on the Node event loop, and other handlers may   *)
(* run at each await.  One action of this model is one such atomic piece.  *)
(***************************************************************************)
EXTENDS Integers, Sequences, FiniteSets

\* ------------------------------------------------------------------ bounds
MaxInFlight == 2      \* request handlers that may be in flight at once
MaxQty == 2           \* largest ticket quantity a checkout request carries
MaxMetaQty == 1       \* largest quantity written in a notification's metadata

\* --------------------------------------------------------------- constants
FEMALE_TICKET_PRICE == 100   \* 1.00 CAD, in hundredths
MALE_TICKET_PRICE == 200     \* 2.00 CAD, in hundredths
FEE_PERCENTAGE == 8          \* 0.08, in hundredths

Slots == 1..MaxInFlight

\* Identifiers: a prefix and a serial number ("pi_1", "pi_2", "cs_1").
PiIds == {[prefix |-> "pi_", n |-> 1], [prefix |-> "pi_", n |-> 2]}
OtherIds == {[prefix |-> "cs_", n |-> 1]}
NoId == [prefix |-> "", n |-> 0]

\* String.prototype.startsWith('pi_')
StartsWithPi(id) == id.prefix = "pi_"

\* The signing secret the processor holds for this endpoint.
StripeEndpointSecret == "whsec_live"
\* Values of the stripe-signature header: absent, or an HMAC under some key.
Signatures == {"", "whsec_live", "whsec_forged"}
EventTypes == {"payment_intent.succeeded", "charge.refunded"}

\* ------------------------------------------------------- decimal strings
Digits == <<"0", "1", "2", "3", "4", "5", "6", "7", "8", "9">>

DigitValue(c) == CHOOSE d \in 0..9 : Digits[d + 1] = c

RECURSIVE ToString(_)
\* Number.prototype.toString() of a non-negative integer
ToString(n) == IF n < 10 THEN <<Digits[n + 1]>>
               ELSE Append(ToString(n \div 10), Digits[(n % 10) + 1])

RECURSIVE ParseDigits(_, _)
ParseDigits(s, acc) == IF s = <<>> THEN acc
                       ELSE ParseDigits(Tail(s), acc * 10 + DigitValue(Head(s)))

\* parseInt(value || '0', 10) on a string of decimal digits
ParseIntOrZero(s) == IF s = <<>> THEN ParseDigits(<<"0">>, 0) ELSE ParseDigits(s, 0)

MetaQtyStrings == {<<>>} \cup {ToString(n) : n \in 1..MaxMetaQty}
Metadatas == [femaleQty : MetaQtyStrings, maleQty : MetaQtyStrings]

\* ------------------------------------------------------------ order store
\* saveOrder that stores nothing
SaveNothing(map, order) == map

\* saveOrder that replaces the whole map by the one order
SaveOrderAlone(map, order) == [k \in {order.paymentIntentId} |-> order]

\* InMemoryOrderStore.saveOrder: Map.set keyed by paymentIntentId
SaveOrder(map, order) ==
    [k \in DOMAIN map \cup {order.paymentIntentId} |->
        IF k = order.paymentIntentId THEN order ELSE map[k]]

\* getOrderByPaymentIntentId that ignores the key
GetAnyOrder(map, id) ==
    IF DOMAIN map = {} THEN {} ELSE {map[CHOOSE k \in DOMAIN map : TRUE]}

\* getOrderByPaymentIntentId that never finds an order
GetNoOrder(map, id) == {}

\* InMemoryOrderStore.getOrderByPaymentIntentId: the order, or null ({})
GetOrderByPaymentIntentId(map, id) ==
    IF id \in DOMAIN map THEN {map[id]} ELSE {}

\* InMemoryOrderStore.isPaymentIntentProcessed: Set.has
IsPaymentIntentProcessed(set, id) == id \in set

\* markPaymentIntentProcessed that adds nothing
MarkNothing(set, id) == set
\* a marker that keeps only the latest id
MarkOnlyLatest(set, id) == {id}

\* InMemoryOrderStore.markPaymentIntentProcessed: Set.add
MarkPaymentIntentProcessed(set, id) == set \cup {id}

\* ------------------------------------------------------ signature check
\* stripe.webhooks.constructEvent: the HMAC in the header must be the one
\* computed under the given secret.
ConstructEventOk(signature, secret) == signature = secret

\* verifyWebhookSignature that parses the body without checking the header
VerifyNothing(signature, secret) == TRUE

\* verifyWebhookSignature: TRUE when an event is returned, FALSE when it throws
VerifyWebhookSignature(signature, secret) ==
    IF secret = "" THEN FALSE ELSE ConstructEventOk(signature, secret)

\* ------------------------------------------------------------ QR service
\* generateQRToken: 32 random bytes in hex.  Two calls are taken never to
\* return the same token, so a token is named by the call that returned it:
\* the n-th call made for payment intent id.
GenerateQRToken(id, n) == [id |-> id, n |-> n]
NoToken == [id |-> NoId, n |-> 0]

\* new Date(): the instant is named by the Order it stamps, the n-th one
\* built for payment intent id.  No code reads an Order's createdAt.
NewDate(id, n) == [id |-> id, n |-> n]

\* QRCode.toDataURL(token): a PNG data URL that encodes the token
GenerateQRCodeDataUrl(token) == <<"data:image/png;base64", token>>

\* --------------------------------------------------------------- pricing
\* Dollar amounts are kept in hundredths of a dollar, a rate in hundredths.
\* Math.round(n / d) for d > 0: the nearest integer, halves towards +infinity
MathRound(n, d) == (2 * n + d) \div (2 * d)

\* calculatePricing that leaves the fee out of the total
PricingWithoutFee(femaleQty, maleQty) ==
    LET subtotal == (femaleQty * FEMALE_TICKET_PRICE) + (maleQty * MALE_TICKET_PRICE)
    IN  [subtotal |-> subtotal, fee |-> MathRound(subtotal * FEE_PERCENTAGE, 100),
         total |-> subtotal]

\* calculatePricing(femaleQty, maleQty)
calculatePricing(femaleQty, maleQty) ==
    LET subtotal == (femaleQty * FEMALE_TICKET_PRICE) + (maleQty * MALE_TICKET_PRICE)
        \* Math.round(subtotal * FEE_PERCENTAGE * 100) / 100
        fee == MathRound(subtotal * FEE_PERCENTAGE, 100)
        total == subtotal + fee
    IN  [subtotal |-> subtotal, fee |-> fee, total |-> total]

\* dollarsToCents(dollars) == Math.round(dollars * 100)
dollarsToCents(dollars) == MathRound(dollars * 100, 100)

NoPricing == [subtotal |-> 0, fee |-> 0, total |-> 0]

\* ------------------------------------------------------ checkout request
\* A JSON number in a request body: the rational num / den.
QtyInputs == {[num |-> n, den |-> 1] : n \in (-1)..MaxQty} \cup {[num |-> 1, den |-> 2]}
NoQty == [num |-> 0, den |-> 1]
\* The language field: absent (""), one of the enum's values, or another tag.
LanguageInputs == {"", "en", "es", "pt-BR", "fr"}

\* z.number().int().min(0, message): the issues of one quantity field
QtyIssues(field, q, minMessage) ==
    (IF q.num % q.den # 0
        THEN {[field |-> field, message |-> "Expected integer, received float"]}
        ELSE {})
    \cup
    (IF q.num < 0 THEN {[field |-> field, message |-> minMessage]} ELSE {})

\* z.enum(['en', 'es', 'pt-BR']).default('en')
LanguageValid(language) == language \in {"", "en", "es", "pt-BR"}
LanguageOrDefault(language) == IF language = "" THEN "en" ELSE language

\* a refinement that accepts an empty order
AnyTicketCount(femaleQty, maleQty) == TRUE

\* .refine(data => data.femaleQty > 0 || data.maleQty > 0)
AtLeastOneTicket(femaleQty, maleQty) == femaleQty.num > 0 \/ maleQty.num > 0

\* createIntentSchema.safeParse(body).error.errors, mapped to {field, message}.
\* The refinement runs unless a field aborted the object parse (the enum).
createIntentSchema(femaleQty, maleQty, language) ==
    QtyIssues("femaleQty", femaleQty, "Female quantity cannot be negative")
    \cup QtyIssues("maleQty", maleQty, "Male quantity cannot be negative")
    \cup (IF LanguageValid(language) THEN {}
          ELSE {[field |-> "language", message |-> "Invalid enum value"]})
    \cup (IF LanguageValid(language) /\ ~AtLeastOneTicket(femaleQty, maleQty)
          THEN {[field |-> "", message |-> "At least one ticket must be selected"]}
          ELSE {})

\* --------------------------------------------------------------- state
VARIABLES
    orders,                   \* InMemoryOrderStore.orders: Map id -> Order
    processedPaymentIntents,  \* InMemoryOrderStore.processedPaymentIntents
    webhookSecret,            \* process.env.STRIPE_WEBHOOK_SECRET
    req,                      \* the handlers in flight, one per slot
    reply,                    \* the response sent by the last step, if any
    authenticated,            \* history: ids of authentic succeeded notifications
    finalizedIds,             \* history: ids whose finalization ran to its end
    saved,                    \* history: tokens passed to saveOrder, per id
    abandoned                 \* history: ids whose finalization stopped midway

vars == <<orders, processedPaymentIntents, webhookSecret, req, reply,
          authenticated, finalizedIds, saved, abandoned>>

store == <<orders, processedPaymentIntents>>
history == <<authenticated, finalizedIds, saved, abandoned>>

NoMetadata == [femaleQty |-> <<>>, maleQty |-> <<>>]

\* A handler's parameters, locals and position.
Idle == [kind |-> "idle", pc |-> "idle", paymentIntentId |-> NoId,
         signature |-> "", eventType |-> "", metadata |-> NoMetadata,
         alreadyProcessed |-> FALSE, order |-> {},
         femaleQty |-> NoQty, maleQty |-> NoQty, language |-> "",
         pricing |-> NoPricing, amountInCents |-> 0, stripeCalls |-> 0,
         duplicate |-> FALSE, afterFinalized |-> FALSE, finalizing |-> FALSE,
         savesSeen |-> 0, afterAbandoned |-> FALSE, failedToken |-> NoToken]

EmptyBody == [error |-> "", message |-> "", received |-> FALSE, status |-> "",
              qrToken |-> NoToken, qrImageDataUrl |-> <<>>, details |-> {},
              clientSecret |-> <<>>, paymentIntentId |-> NoId,
              pricing |-> NoPricing, timestamp |-> ""]

NoReply == [req |-> Idle, code |-> 0, body |-> EmptyBody]

\* The slots only name the handlers in flight: a request that arrives takes
\* the lowest slot that is free.
Free(s) == req[s].pc = "idle" /\ \A t \in 1..(s - 1) : req[t].pc # "idle"

\* no handler is in flight
Quiet == \A s \in Slots : req[s].pc = "idle"

\* reply.status(code).send(body) ends the handler in slot s
Send(s, r, code, body) ==
    /\ req' = [req EXCEPT ![s] = Idle]
    /\ reply' = [req |-> r, code |-> code, body |-> body]

\* the handler in slot s goes on to its next await
Continue(s, r) ==
    /\ req' = [req EXCEPT ![s] = r]
    /\ reply' = NoReply

\* The notification was signed by the processor and the endpoint holds the key.
Authentic(signature) ==
    webhookSecret = StripeEndpointSecret /\ signature = StripeEndpointSecret

Init ==
    /\ orders = [i \in {} |-> Idle]
    /\ processedPaymentIntents = {}
    /\ webhookSecret \in {"", StripeEndpointSecret}
    /\ req = [s \in Slots |-> Idle]
    /\ reply = NoReply
    /\ authenticated = {}
    /\ finalizedIds = {}
    /\ saved = [i \in PiIds |-> <<>>]
    /\ abandoned = {}

\* ------------------------------------------- POST /api/webhooks/stripe
\* From the handler's entry to its first await: the header check, the
\* signature verification, the switch on the event type and, for
\* payment_intent.succeeded, the call of isPaymentIntentProcessed.
StartWebhook(s, id, signature, eventType, metadata) ==
    LET r == [Idle EXCEPT !.kind = "webhook", !.paymentIntentId = id,
                          !.signature = signature, !.eventType = eventType,
                          !.metadata = metadata,
                          !.duplicate = (id \in authenticated),
                          !.afterAbandoned = (id \in abandoned)]
    IN
    /\ Free(s)
    /\ authenticated' =
          IF Authentic(signature) /\ eventType = "payment_intent.succeeded"
          THEN authenticated \cup {id} ELSE authenticated
    /\ UNCHANGED <<store, webhookSecret, finalizedIds, saved, abandoned>>
    /\ IF signature = ""
       THEN Send(s, r, 400, [EmptyBody EXCEPT
                !.error = "Missing stripe-signature header"])
       ELSE IF ~VerifyWebhookSignature(signature, webhookSecret)
       THEN Send(s, r, 400, [EmptyBody EXCEPT
                !.error = "Webhook signature verification failed"])
       ELSE IF eventType # "payment_intent.succeeded"
       THEN Send(s, r, 200, [EmptyBody EXCEPT !.received = TRUE])
       ELSE Continue(s, [r EXCEPT !.pc = "checked",
                !.alreadyProcessed =
                    IsPaymentIntentProcessed(processedPaymentIntents, id)])

\* handlePaymentIntentSucceeded after the check: return when already
\* processed (the route then answers 200), else markPaymentIntentProcessed.
WebhookMark(s) ==
    LET r == req[s] IN
    /\ r.kind = "webhook" /\ r.pc = "checked"
    /\ UNCHANGED <<orders, webhookSecret, history>>
    /\ IF r.alreadyProcessed
       THEN /\ Send(s, r, 200, [EmptyBody EXCEPT !.received = TRUE])
            /\ UNCHANGED processedPaymentIntents
       ELSE /\ processedPaymentIntents' =
                 MarkPaymentIntentProcessed(processedPaymentIntents, r.paymentIntentId)
            /\ Continue(s, [r EXCEPT !.pc = "marked", !.finalizing = TRUE])

\* the Order that handlePaymentIntentSucceeded builds
NewOrder(id, qrToken, metadata, now) ==
    [paymentIntentId |-> id, qrToken |-> qrToken, status |-> "valid",
     createdAt |-> now,
     femaleQty |-> ParseIntOrZero(metadata.femaleQty),
     maleQty |-> ParseIntOrZero(metadata.maleQty)]

\* handlePaymentIntentSucceeded after the mark: the metadata, generateQRToken
\* and the call of saveOrder.
WebhookSave(s) ==
    LET r == req[s]
        n == Len(saved[r.paymentIntentId]) + 1
        qrToken == GenerateQRToken(r.paymentIntentId, n)
    IN
    /\ r.kind = "webhook" /\ r.pc = "marked"
    /\ orders' = SaveOrder(orders,
                    NewOrder(r.paymentIntentId, qrToken, r.metadata,
                             NewDate(r.paymentIntentId, n)))
    /\ saved' = [saved EXCEPT ![r.paymentIntentId] = Append(@, qrToken)]
    /\ Continue(s, [r EXCEPT !.pc = "saved"])
    /\ UNCHANGED <<processedPaymentIntents, webhookSecret, authenticated,
                   finalizedIds, abandoned>>

\* crypto.randomBytes throws: the error leaves handlePaymentIntentSucceeded
\* and the route handler, and the framework's error handler answers 500.
\* The history of abandoned finalizations is kept where recorded is set.
WebhookTokenFails(s, recorded) ==
    LET r == req[s] IN
    /\ r.kind = "webhook" /\ r.pc = "marked"
    /\ abandoned' = IF recorded THEN abandoned \cup {r.paymentIntentId}
                    ELSE abandoned
    /\ Send(s, r, 500, [EmptyBody EXCEPT !.error = "Internal Server Error"])
    /\ UNCHANGED <<store, webhookSecret, authenticated, finalizedIds, saved>>

\* saveOrder has resolved: handlePaymentIntentSucceeded returns and the
\* route answers 200.
WebhookReply(s) ==
    LET r == req[s] IN
    /\ r.kind = "webhook" /\ r.pc = "saved"
    /\ finalizedIds' = finalizedIds \cup {r.paymentIntentId}
    /\ Send(s, r, 200, [EmptyBody EXCEPT !.received = TRUE])
    /\ UNCHANGED <<store, webhookSecret, authenticated, saved, abandoned>>

\* ------------------------------------- GET /api/orders/:paymentIntentId/qr
\* history: the token of the Order whose image failed to render, when the
\* response before this request was that failure for the same id and no
\* other handler is in flight
FailedToken(id) ==
    IF Quiet /\ reply.req.kind = "query" /\ reply.code = 500
             /\ reply.req.paymentIntentId = id
    THEN (CHOOSE o \in reply.req.order : TRUE).qrToken
    ELSE NoToken

\* From the handler's entry to its first await: the format check and the
\* call of getOrderByPaymentIntentId.
StartQuery(s, id) ==
    LET r == [Idle EXCEPT !.kind = "query", !.paymentIntentId = id,
                          !.afterFinalized = (id \in finalizedIds),
                          !.afterAbandoned = (id \in abandoned),
                          !.failedToken = FailedToken(id)]
    IN
    /\ Free(s)
    /\ UNCHANGED <<store, webhookSecret, history>>
    /\ IF id = NoId \/ ~StartsWithPi(id)
       THEN Send(s, r, 400, [EmptyBody EXCEPT
                !.error = "Invalid PaymentIntent ID format"])
       ELSE Continue(s, [r EXCEPT !.pc = "looked",
                !.order = GetOrderByPaymentIntentId(orders, id),
                !.savesSeen = Len(saved[id])])

\* after the lookup: answer pending, or call generateQRCodeDataUrl
QueryLooked(s) ==
    LET r == req[s] IN
    /\ r.kind = "query" /\ r.pc = "looked"
    /\ UNCHANGED <<store, webhookSecret, history>>
    /\ IF r.order = {}
       THEN Send(s, r, 200, [EmptyBody EXCEPT !.status = "pending"])
       ELSE Continue(s, [r EXCEPT !.pc = "rendering"])

\* generateQRCodeDataUrl has settled: rendered, or it threw
QueryRendered(s, rendered) ==
    LET r == req[s]
        order == CHOOSE o \in r.order : TRUE
    IN
    /\ r.kind = "query" /\ r.pc = "rendering"
    /\ UNCHANGED <<store, webhookSecret, history>>
    /\ IF rendered
       THEN Send(s, r, 200, [EmptyBody EXCEPT !.status = "ready",
                !.qrToken = order.qrToken,
                !.qrImageDataUrl = GenerateQRCodeDataUrl(order.qrToken)])
       ELSE Send(s, r, 500, [EmptyBody EXCEPT
                !.error = "Failed to generate QR code"])

\* ----------------------------------- POST /api/checkout/create-intent
\* From the handler's entry to its first await: validation, pricing and the
\* call of stripe.paymentIntents.create.
StartCheckout(s, femaleQty, maleQty, language) ==
    LET issues == createIntentSchema(femaleQty, maleQty, language)
        r == [Idle EXCEPT !.kind = "checkout", !.femaleQty = femaleQty,
                          !.maleQty = maleQty, !.language = language]
        f == femaleQty.num \div femaleQty.den
        m == maleQty.num \div maleQty.den
        pricing == calculatePricing(f, m)
    IN
    /\ Free(s)
    /\ UNCHANGED <<store, webhookSecret, history>>
    /\ IF issues # {}
       THEN Send(s, r, 400, [EmptyBody EXCEPT !.error = "Validation failed",
                !.details = issues])
       ELSE Continue(s, [r EXCEPT !.pc = "creating",
                !.language = LanguageOrDefault(language),
                !.pricing = pricing,
                !.amountInCents = dollarsToCents(pricing.total),
                !.metadata = [femaleQty |-> ToString(f), maleQty |-> ToString(m)],
                !.stripeCalls = 1])

\* stripe.paymentIntents.create resolves with a payment intent
CheckoutCreated(s, id) ==
    LET r == req[s] IN
    /\ r.kind = "checkout" /\ r.pc = "creating"
    /\ UNCHANGED <<store, webhookSecret, history>>
    /\ Send(s, [r EXCEPT !.paymentIntentId = id], 200,
            [EmptyBody EXCEPT !.clientSecret = <<id, "_secret_">>,
                !.paymentIntentId = id, !.pricing = r.pricing])

\* stripe.paymentIntents.create rejects: with a Stripe error (it has a
\* 'type'), or with any other error
CheckoutFails(s, stripeError) ==
    LET r == req[s] IN
    /\ r.kind = "checkout" /\ r.pc = "creating"
    /\ UNCHANGED <<store, webhookSecret, history>>
    /\ IF stripeError
       THEN Send(s, r, 500, [EmptyBody EXCEPT !.error = "Payment service error",
                !.message = "Failed to create payment. Please try again."])
       ELSE Send(s, r, 500, [EmptyBody EXCEPT !.error = "Internal server error",
                !.message = "An unexpected error occurred."])

\* ------------------------------------------------------------ GET /health
Health(s) ==
    /\ Free(s)
    /\ UNCHANGED <<store, webhookSecret, history>>
    /\ Send(s, [Idle EXCEPT !.kind = "health"], 200,
            [EmptyBody EXCEPT !.status = "ok", !.timestamp = "now"])

\* ------------------------------------------------------- specifications
\* The notifications that can arrive.  The metadata is read only by
\* handlePaymentIntentSucceeded, so it varies only where that runs.
WebhookRequests ==
    {w \in [paymentIntentId : PiIds, signature : Signatures,
            eventType : EventTypes, metadata : Metadatas] :
        \/ w.metadata = NoMetadata
        \/ w.signature = StripeEndpointSecret /\ w.eventType = "payment_intent.succeeded"}

QueryIds == PiIds \cup OtherIds \cup {NoId}

\* The create-intent bodies.
CheckoutRequests ==
    [femaleQty : QtyInputs, maleQty : QtyInputs, language : LanguageInputs]

\* A request that is answered before its first await overlaps with no other
\* handler.  Where handlers overlap, the requests are those that reach an
\* await, with one request body of each kind, and the forged notifications.
OverlappingWebhookRequests ==
    {w \in [paymentIntentId : PiIds,
            signature : {StripeEndpointSecret, "whsec_forged"},
            eventType : {"payment_intent.succeeded"},
            metadata : {[femaleQty |-> ToString(1), maleQty |-> <<>>]}] : TRUE}
OverlappingQueryIds == PiIds
OverlappingCheckoutRequests ==
    {c \in CheckoutRequests : c.language = "" /\ c.femaleQty = [num |-> 1, den |-> 1]
                              /\ c.maleQty = [num |-> 0, den |-> 1]}

WebhookArrives(s, requests) ==
    \E w \in requests :
        StartWebhook(s, w.paymentIntentId, w.signature, w.eventType, w.metadata)

QueryArrives(s, ids) == \E id \in ids : StartQuery(s, id)

CheckoutArrives(s, requests) ==
    \E c \in requests : StartCheckout(s, c.femaleQty, c.maleQty, c.language)

\* a handler in flight goes on from its await
Resume(s, recorded) ==
    \/ WebhookMark(s)
    \/ WebhookSave(s)
    \/ WebhookTokenFails(s, recorded)
    \/ WebhookReply(s)
    \/ QueryLooked(s)
    \/ \E rendered \in BOOLEAN : QueryRendered(s, rendered)
    \/ \E id \in PiIds : CheckoutCreated(s, id)
    \/ \E stripeError \in BOOLEAN : CheckoutFails(s, stripeError)

\* Handlers overlap: a request may arrive while others are in flight.
Next ==
    \E s \in Slots :
        \/ WebhookArrives(s, OverlappingWebhookRequests)
        \/ QueryArrives(s, OverlappingQueryIds)
        \/ CheckoutArrives(s, OverlappingCheckoutRequests)
        \/ Resume(s, FALSE)

Spec == Init /\ [][Next]_vars

\* Handlers overlap, and the abandoned finalizations are recorded.
NextLost ==
    \E s \in Slots :
        \/ WebhookArrives(s, OverlappingWebhookRequests)
        \/ QueryArrives(s, OverlappingQueryIds)
        \/ CheckoutArrives(s, OverlappingCheckoutRequests)
        \/ Resume(s, TRUE)

SpecLost == Init /\ [][NextLost]_vars

\* One request at a time: a request arrives only when none is in flight.
\* The create-intent bodies here leave maleQty at 0.
SequentialCheckoutRequests ==
    {c \in CheckoutRequests : c.language \in {"", "fr"}
                              /\ c.maleQty = [num |-> 0, den |-> 1]}

WebhookArrivesAlone(s) == Quiet /\ WebhookArrives(s, WebhookRequests)
QueryArrivesAlone(s) == Quiet /\ QueryArrives(s, QueryIds)
CheckoutArrivesAlone(s) == Quiet /\ CheckoutArrives(s, SequentialCheckoutRequests)
HealthArrivesAlone(s) == Quiet /\ Health(s)

NextSeq ==
    \E s \in Slots :
        \/ WebhookArrivesAlone(s)
        \/ QueryArrivesAlone(s)
        \/ CheckoutArrivesAlone(s)
        \/ HealthArrivesAlone(s)
        \/ Resume(s, TRUE)

SpecSeq == Init /\ [][NextSeq]_vars

\* The checkout endpoint alone, over every create-intent body.
AnyCheckoutArrivesAlone(s) == Quiet /\ CheckoutArrives(s, CheckoutRequests)

NextCheckout ==
    \E s \in Slots :
        \/ AnyCheckoutArrivesAlone(s)
        \/ \E id \in PiIds : CheckoutCreated(s, id)
        \/ \E stripeError \in BOOLEAN : CheckoutFails(s, stripeError)

SpecCheckout == Init /\ [][NextCheckout]_vars

\* ------------------------------------------------------------- claims
SucceededDelivery(r) ==
    /\ r.kind = "webhook"
    /\ Authentic(r.signature)
    /\ r.eventType = "payment_intent.succeeded"

Acknowledged == reply.code = 200 /\ reply.body.received

\* C1: when authentic payment_intent.succeeded notifications for one id are
\* delivered one after another, only the first delivery finalizes: at most
\* one token is generated and saved for the id, the Order holds that token,
\* and a later delivery finds the id processed, marks and saves nothing and
\* is answered 200 {received: true}.
SequentialIdempotence ==
    /\ \A id \in PiIds :
          /\ Len(saved[id]) <= 1
          /\ Len(saved[id]) = 1 =>
                /\ id \in DOMAIN orders
                /\ orders[id].qrToken = saved[id][1]
    /\ \A s \in Slots :
          req[s].kind = "webhook" /\ req[s].duplicate =>
              req[s].pc = "checked" /\ req[s].alreadyProcessed
    /\ SucceededDelivery(reply.req) /\ reply.req.duplicate =>
          Acknowledged /\ ~reply.req.finalizing

SecondDeliveryAcknowledged ==
    /\ SucceededDelivery(reply.req) /\ reply.req.duplicate /\ Acknowledged
    /\ Len(saved[reply.req.paymentIntentId]) = 1
    /\ reply.req.paymentIntentId \in DOMAIN orders

\* C2: of the handlers of authentic payment_intent.succeeded notifications
\* for one id, at most one passes the processed check, so at most one token
\* is generated and saved for the id.
AtMostOneFinalization ==
    \A id \in PiIds :
        /\ Len(saved[id]) <= 1
        /\ Cardinality({s \in Slots : /\ req[s].kind = "webhook"
                                      /\ req[s].paymentIntentId = id
                                      /\ req[s].finalizing}) <= 1

\* C3: a notification without a signature header, or whose signature does
\* not verify, is answered 400 by a step that leaves the Order map and the
\* processed set unchanged; a notification for an id that no authentic
\* delivery preceded finds the id not processed.
RejectedWebhook(r) == r.kind = "webhook" /\ ~Authentic(r.signature)

RejectedWebhookChangesNothing ==
    /\ [](\A s \in Slots :
            req[s].kind = "webhook" /\ req[s].pc = "checked" /\ ~req[s].duplicate
                => ~req[s].alreadyProcessed)
    /\ [][RejectedWebhook(reply'.req) =>
            /\ reply'.code = 400
            /\ reply'.body.error # ""
            /\ UNCHANGED store]_vars

ForgedSucceededRejected ==
    /\ RejectedWebhook(reply.req)
    /\ reply.req.signature = "whsec_forged"
    /\ webhookSecret = StripeEndpointSecret
    /\ reply.req.eventType = "payment_intent.succeeded"
    /\ reply.code = 400
    /\ reply.req.paymentIntentId \notin processedPaymentIntents

\* C4: once the finalization of an id has run to its end, the id has an
\* Order of its own with status 'valid', and a query that arrives afterwards
\* is never answered 'pending': it is answered 'ready' with the token of the
\* Order stored when it looked, or 500 when the image fails to render.
OrderReachableAfterFinalization ==
    /\ \A id \in finalizedIds :
          /\ id \in DOMAIN orders
          /\ orders[id].paymentIntentId = id
          /\ orders[id].status = "valid"
    /\ reply.req.kind = "query" /\ reply.req.afterFinalized =>
          \/ /\ reply.code = 200
             /\ reply.body.status = "ready"
             /\ reply.req.savesSeen \in 1..Len(saved[reply.req.paymentIntentId])
             /\ reply.body.qrToken =
                    saved[reply.req.paymentIntentId][reply.req.savesSeen]
             /\ reply.req.savesSeen = Len(saved[reply.req.paymentIntentId]) =>
                    reply.body.qrToken = orders[reply.req.paymentIntentId].qrToken
          \/ /\ reply.code = 500
             /\ reply.body.error = "Failed to generate QR code"

QueryReadyAfterFinalization ==
    /\ reply.req.kind = "query" /\ reply.req.afterFinalized
    /\ reply.code = 200 /\ reply.body.status = "ready"
    /\ reply.body.qrToken = orders[reply.req.paymentIntentId].qrToken

\* C5: a query is answered 'ready', and any token leaves the service, only
\* for an id for which an authentic payment_intent.succeeded notification
\* arrived earlier.
TokenOnlyAfterConfirmation ==
    /\ reply.body.status = "ready" \/ reply.body.qrToken # NoToken =>
          /\ reply.req.kind = "query"
          /\ reply.req.paymentIntentId \in authenticated
    /\ \A s \in Slots : req[s].order # {} => req[s].paymentIntentId \in authenticated

QueryReadyForConfirmedId ==
    /\ reply.req.kind = "query" /\ reply.body.status = "ready"
    /\ reply.req.paymentIntentId \in authenticated

\* C6: a query for a payment-intent id that has no Order is answered 200
\* with status 'pending'.
PendingWithoutOrder ==
    /\ reply.req.kind = "query"
    /\ StartsWithPi(reply.req.paymentIntentId)
    /\ reply.req.paymentIntentId \notin DOMAIN orders
    => /\ reply.code = 200
       /\ reply.body.status = "pending"
       /\ reply.body.error = ""

QueryPendingWhileFinalizing ==
    /\ reply.req.kind = "query"
    /\ reply.code = 200 /\ reply.body.status = "pending"
    /\ reply.req.paymentIntentId \in processedPaymentIntents
    /\ reply.req.paymentIntentId \notin DOMAIN orders

\* C7: every notification whose signature verifies is answered
\* 200 {received: true}.
VerifiedAlwaysAcknowledged ==
    reply.req.kind = "webhook"
    /\ VerifyWebhookSignature(reply.req.signature, webhookSecret)
    => Acknowledged

\* C8: for non-negative integer quantities with at least one positive,
\* create-intent asks the processor for 108 * femaleQty + 216 * maleQty
\* cents, where subtotal = 100 * femaleQty + 200 * maleQty cents, fee is 8%
\* of the subtotal rounded to the cent, and total = subtotal + fee; the
\* pricing it returns is that breakdown.
ValidQuantities(femaleQty, maleQty) ==
    /\ femaleQty.num % femaleQty.den = 0 /\ femaleQty.num >= 0
    /\ maleQty.num % maleQty.den = 0 /\ maleQty.num >= 0
    /\ femaleQty.num + maleQty.num > 0

ExpectedAmount(r) ==
    LET f == r.femaleQty.num \div r.femaleQty.den
        m == r.maleQty.num \div r.maleQty.den
        subtotal == 100 * f + 200 * m
    IN  /\ r.pricing.subtotal = subtotal
        /\ r.pricing.fee = (8 * subtotal + 50) \div 100
        /\ r.pricing.total = r.pricing.subtotal + r.pricing.fee
        /\ r.amountInCents = 108 * f + 216 * m

CheckoutAmount ==
    /\ \A s \in Slots :
          req[s].kind = "checkout" /\ req[s].pc = "creating" => ExpectedAmount(req[s])
    /\ /\ reply.req.kind = "checkout"
       /\ ValidQuantities(reply.req.femaleQty, reply.req.maleQty)
       /\ LanguageValid(reply.req.language)
       => /\ reply.req.stripeCalls = 1
          /\ ExpectedAmount(reply.req)
          /\ reply.code = 200 => reply.body.pricing = reply.req.pricing

TwoFemaleOneMale ==
    \E s \in Slots :
        /\ req[s].kind = "checkout" /\ req[s].pc = "creating"
        /\ req[s].femaleQty = [num |-> 2, den |-> 1]
        /\ req[s].maleQty = [num |-> 1, den |-> 1]
        /\ req[s].pricing = [subtotal |-> 400, fee |-> 32, total |-> 432]
        /\ req[s].amountInCents = 432

\* C9: create-intent answers 400 with per-field messages, and does not call
\* the processor, when both quantities are zero or a quantity is negative
\* or not an integer; it calls the processor at most once per request, and
\* only with quantities that are non-negative integers, one of them
\* positive, and with a positive amount.
CheckoutValidation ==
    /\ \A s \in Slots :
          req[s].kind = "checkout" /\ req[s].pc = "creating" =>
              /\ ValidQuantities(req[s].femaleQty, req[s].maleQty)
              /\ req[s].stripeCalls = 1
              /\ req[s].amountInCents > 0
    /\ reply.req.kind = "checkout" =>
          /\ reply.req.stripeCalls \in {0, 1}
          /\ reply.req.stripeCalls = 1 =>
                /\ ValidQuantities(reply.req.femaleQty, reply.req.maleQty)
                /\ reply.req.amountInCents > 0
          /\ ~ValidQuantities(reply.req.femaleQty, reply.req.maleQty) =>
                /\ reply.code = 400
                /\ reply.body.error = "Validation failed"
                /\ reply.body.details # {}
                /\ \A d \in reply.body.details : d.message # ""
                /\ reply.req.stripeCalls = 0

ZeroZeroRejected ==
    /\ reply.req.kind = "checkout"
    /\ reply.req.femaleQty = [num |-> 0, den |-> 1]
    /\ reply.req.maleQty = [num |-> 0, den |-> 1]
    /\ reply.code = 400
    /\ reply.req.stripeCalls = 0
    /\ [field |-> "", message |-> "At least one ticket must be selected"]
          \in reply.body.details

\* C10: every id that has an Order is in the processed set, and so is the
\* id of every handler that is past the mark (about to generate a token, or
\* done saving), under any interleaving of handlers.
MarkedBeforeFinalized ==
    /\ DOMAIN orders \subseteq processedPaymentIntents
    /\ \A id \in PiIds : Len(saved[id]) > 0 => id \in processedPaymentIntents
    /\ \A s \in Slots :
          req[s].kind = "webhook" /\ req[s].pc \in {"marked", "saved"} =>
              req[s].paymentIntentId \in processedPaymentIntents

OrderSavedWhileOtherHandlerChecks ==
    \E s \in Slots :
        /\ req[s].kind = "webhook" /\ req[s].pc = "checked"
        /\ req[s].paymentIntentId \in DOMAIN orders
        /\ req[s].paymentIntentId \in processedPaymentIntents

\* C11: an Order, once it exists for an id, is never removed or changed: in
\* every step, under any interleaving of deliveries, queries and checkouts,
\* each id that has an Order keeps it, with the same token, status,
\* quantities and creation time.
OrderNeverMutated ==
    [][\A id \in DOMAIN orders :
          /\ id \in DOMAIN orders'
          /\ orders'[id].qrToken = orders[id].qrToken
          /\ orders'[id].status = orders[id].status
          /\ orders'[id].femaleQty = orders[id].femaleQty
          /\ orders'[id].maleQty = orders[id].maleQty
          /\ orders'[id].createdAt = orders[id].createdAt]_vars

\* C12: when the finalization of an authentic payment_intent.succeeded
\* notification stops after markPaymentIntentProcessed and before saveOrder
\* completes, the id is left marked processed with no Order, and stays so:
\* every delivery that arrives afterwards finds the id processed, marks and
\* saves nothing and is acknowledged, no Order is ever created for the id,
\* and every query that arrives afterwards is answered 'pending'.
LostOrderIsPermanent ==
    /\ \A id \in abandoned :
          /\ id \in processedPaymentIntents
          /\ id \notin DOMAIN orders
    /\ \A s \in Slots :
          /\ req[s].kind = "webhook" /\ req[s].afterAbandoned =>
                req[s].pc = "checked" /\ req[s].alreadyProcessed
          /\ req[s].kind = "query" /\ req[s].afterAbandoned => req[s].order = {}
    /\ SucceededDelivery(reply.req) /\ reply.req.afterAbandoned =>
          Acknowledged /\ ~reply.req.finalizing
    /\ reply.req.kind = "query" /\ reply.req.afterAbandoned =>
          reply.code = 200 /\ reply.body.status = "pending"

\* C13: the processed set only grows: no step removes an id, a step adds an
\* id only on behalf of a handler of an authentic payment_intent.succeeded
\* notification for that id, and once isPaymentIntentProcessed(id) is true
\* it is true in every later state.
ProcessedOnlyGrows ==
    /\ [](processedPaymentIntents \subseteq authenticated)
    /\ [][/\ processedPaymentIntents \subseteq processedPaymentIntents'
          /\ \A id \in processedPaymentIntents' \ processedPaymentIntents :
                \E s \in Slots :
                    /\ SucceededDelivery(req[s])
                    /\ req[s].paymentIntentId = id
                    /\ req[s].pc = "checked"
          /\ \A id \in PiIds :
                IsPaymentIntentProcessed(processedPaymentIntents, id) =>
                    IsPaymentIntentProcessed(processedPaymentIntents', id)]_vars

AllIdsProcessed ==
    /\ processedPaymentIntents = PiIds
    /\ \A id \in PiIds : IsPaymentIntentProcessed(processedPaymentIntents, id)

\* C14: the outcomes of an order query.  An id that does not start with
\* 'pi_' is answered 400 before any lookup; an id with no Order is answered
\* 200 'pending'; an id with an Order is answered 200 'ready' with the
\* stored token and its image, or 500 when the image fails to render, and
\* never 'pending'.  The step that answers 500 leaves the Order map and the
\* processed set unchanged, and a query that follows the failure and is
\* answered 'ready' carries the token of the Order whose image failed.
StoredOrder(id) == IF id \in DOMAIN orders THEN {orders[id]} ELSE {}

QueryOutcome ==
    LET id == reply.req.paymentIntentId IN
    reply.req.kind = "query" =>
        IF id = NoId \/ ~StartsWithPi(id)
        THEN /\ reply.code = 400
             /\ reply.body.error = "Invalid PaymentIntent ID format"
             /\ reply.body.status = ""
             /\ reply.req.pc = "idle"
        ELSE IF id \notin DOMAIN orders
        THEN /\ reply.code = 200
             /\ reply.body.status = "pending"
             /\ reply.body.qrToken = NoToken
        ELSE \/ /\ reply.code = 200
                /\ reply.body.status = "ready"
                /\ reply.body.qrToken = orders[id].qrToken
                /\ reply.body.qrImageDataUrl =
                       GenerateQRCodeDataUrl(orders[id].qrToken)
                /\ reply.req.failedToken # NoToken =>
                       reply.body.qrToken = reply.req.failedToken
             \/ /\ reply.code = 500
                /\ reply.body.error = "Failed to generate QR code"
                /\ reply.body.status = ""
                /\ reply.body.qrToken = NoToken

QueryOutcomesExhaustive ==
    /\ [](/\ QueryOutcome
          /\ \A s \in Slots :
                req[s].kind = "query" =>
                    /\ StartsWithPi(req[s].paymentIntentId)
                    /\ req[s].order = StoredOrder(req[s].paymentIntentId)
                    /\ req[s].pc = "rendering" => req[s].order # {})
    /\ [][reply'.req.kind = "query" /\ reply'.code = 500 => UNCHANGED store]_vars

ReadyAfterRenderFailure ==
    /\ reply.req.kind = "query"
    /\ reply.code = 200 /\ reply.body.status = "ready"
    /\ reply.req.failedToken # NoToken
    /\ reply.body.qrToken = reply.req.failedToken
    /\ reply.body.qrToken = orders[reply.req.paymentIntentId].qrToken

\* C15: a step changes the Order map or the processed set only as the mark
\* or the save of a handler of an authentic payment_intent.succeeded
\* notification, and then only the marker, or the Order, of that
\* notification's id: the markers and Orders of all other ids stay as they
\* were.  The steps of create-intent, of order queries, of health checks, of
\* rejected notifications and of notifications of other event types leave
\* both unchanged.
MarkStep(s) ==
    /\ req[s].pc = "checked" /\ req'[s].pc = "marked"
    /\ orders' = orders
    /\ processedPaymentIntents' =
          processedPaymentIntents \cup {req[s].paymentIntentId}

SaveStep(s) ==
    /\ req[s].pc = "marked" /\ req'[s].pc = "saved"
    /\ processedPaymentIntents' = processedPaymentIntents
    /\ DOMAIN orders' = DOMAIN orders \cup {req[s].paymentIntentId}
    /\ orders'[req[s].paymentIntentId].paymentIntentId = req[s].paymentIntentId
    /\ \A k \in DOMAIN orders \ {req[s].paymentIntentId} : orders'[k] = orders[k]

OnlyFinalizationWrites ==
    /\ [][store' # store =>
            \E s \in Slots :
                /\ SucceededDelivery(req[s])
                /\ MarkStep(s) \/ SaveStep(s)]_vars
    /\ [][\/ reply'.req.kind \in {"checkout", "query", "health"}
          \/ RejectedWebhook(reply'.req)
          \/ /\ reply'.req.kind = "webhook"
             /\ reply'.req.eventType # "payment_intent.succeeded"
          => UNCHANGED store]_vars

OtherOrderKept ==
    /\ DOMAIN orders = PiIds
    /\ processedPaymentIntents = PiIds
    /\ SucceededDelivery(reply.req) /\ reply.req.finalizing /\ Acknowledged
    /\ \A id \in PiIds : orders[id].qrToken = saved[id][1]

====
